---- MODULE Spec2Model ----
(***************************************************************************)
(* A model of package cryptokey (src/cryptokey.go): the CryptoKey type,    *)
(* NewCryptoKey, Sign, Verify, SignMsg, VerifyMsg and ToCryptoKey.         *)
(*                                                                         *)
(* Byte strings are sequences over 0..255 and keep the real lengths of the *)
(* algorithms (digest, signature and coordinate sizes).  A big.Int is the  *)
(* big-endian magnitude without leading zero bytes.  The elliptic-curve    *)
(* arithmetic and the hash functions are outside the package; they are     *)
(* replaced by small algebraic stand-ins that keep what the package relies *)
(* on: the signing equations, the range and length checks, and the panics  *)
(* of the standard library.                                                *)
(***************************************************************************)
EXTENDS Integers, Sequences, FiniteSets, TLC

VARIABLES key, origin, cozekey, orig, signed, out

vars == <<key, origin, cozekey, orig, signed, out>>

(***************************************************************************)
(* Bounds of the model.                                                    *)
(***************************************************************************)
\* Fresh ECDSA private scalars are drawn from 1..MaxScalar.
MaxScalar == 3
\* The nonces of ecdsa.Sign are drawn from 1..MaxNonce.
MaxNonce == 2
\* Ed25519 seeds are Fill(b, 32) for b in 1..NumSeeds.
NumSeeds == 2
\* Messages are Fill(b, n) for b in MsgBytes and n in 0..MaxMsgLen.
MaxMsgLen == 1

(***************************************************************************)
(* Byte strings and big.Int.                                               *)
(***************************************************************************)
Fill(b, n) == [i \in 1..n |-> b]

Zeros(n) == Fill(0, n)

\* s[lo:hi] of Go, 0-based, for 0 <= lo <= hi <= Len(s).
Slice(s, lo, hi) == [i \in 1..(hi - lo) |-> s[lo + i]]

\* The sum of the numbers f[lo..hi], by halves.
RECURSIVE SumRange(_, _, _)
SumRange(f, lo, hi) ==
    IF lo > hi THEN 0
    ELSE IF lo = hi THEN f[lo]
    ELSE LET mid == (lo + hi) \div 2
         IN  SumRange(f, lo, mid) + SumRange(f, mid + 1, hi)

SumBytes(s) == SumRange(s, 1, Len(s))

\* s without its leading zero bytes.
Strip(s) ==
    LET nz == {i \in 1..Len(s) : s[i] # 0}
    IN  IF nz = {} THEN <<>>
        ELSE LET first == CHOOSE i \in nz : \A j \in nz : i <= j
             IN  [i \in 1..(Len(s) - first + 1) |-> s[first + i - 1]]

\* big.Int.SetBytes: the unsigned big-endian value of b.
SetBytes(b) == Strip(b)

\* big.Int of a small number 0..255.
BigOf(v) == IF v = 0 THEN <<>> ELSE <<v>>

\* b^e mod n, for e below n.
RECURSIVE PowMod(_, _, _)
PowMod(b, e, n) == IF e = 0 THEN 1 % n ELSE (b * PowMod(b, e - 1, n)) % n

\* x mod n for a big.Int x and a small prime n: the sum of its bytes, each
\* times its power of 256 (256^j = 256^(j mod (n-1)) modulo a prime n).
BigMod(x, n) ==
    LET L == Len(x)
        term == [i \in 1..L |-> (x[i] * PowMod(256 % n, (L - i) % (n - 1), n)) % n]
    IN  SumRange(term, 1, L) % n

\* The inverse of a modulo the prime n, for a not divisible by n.
Inv(a, n) == CHOOSE b \in 1..(n - 1) : (a * b) % n = 1

(***************************************************************************)
(* The algorithm registry of package coze, as the package uses it.         *)
(***************************************************************************)
EcdsaAlgs == {"ES224", "ES256", "ES384", "ES512"}

EddsaAlgs == {"Ed25519", "Ed25519ph"}

SupportedAlgs == EcdsaAlgs \cup EddsaAlgs

\* An algorithm value no branch of the package matches.
UnknownAlg == "UnknownSEAlg"

Algs == SupportedAlgs \cup {UnknownAlg}

\* alg.SigAlg().Genus()
Genus(alg) == CASE alg \in EcdsaAlgs -> "Ecdsa"
                [] alg \in EddsaAlgs -> "Eddsa"
                [] OTHER -> "Unknown"

\* alg.Hash().Size(): SHA-224, SHA-256, SHA-384, SHA-512; 0 when unknown.
HashSize(alg) == CASE alg = "ES224" -> 28
                   [] alg = "ES256" -> 32
                   [] alg = "ES384" -> 48
                   [] alg = "ES512" -> 64
                   [] alg \in EddsaAlgs -> 64
                   [] OTHER -> 0

\* alg.SigAlg().SigSize()
SigSize(alg) == CASE alg = "ES224" -> 56
                  [] alg = "ES256" -> 64
                  [] alg = "ES384" -> 96
                  [] alg = "ES512" -> 132
                  [] alg \in EddsaAlgs -> 64
                  [] OTHER -> 0

\* alg.XSize()
XSize(alg) == CASE alg = "ES224" -> 56
                [] alg = "ES256" -> 64
                [] alg = "ES384" -> 96
                [] alg = "ES512" -> 132
                [] alg \in EddsaAlgs -> 32
                [] OTHER -> 0

\* alg.Curve().EllipticCurve()
Curve(alg) == CASE alg = "ES224" -> "P-224"
                [] alg = "ES256" -> "P-256"
                [] alg = "ES384" -> "P-384"
                [] alg = "ES512" -> "P-521"
                [] OTHER -> "none"

\* coze.Hash(alg.Hash(), msg): a digest of HashSize(alg) bytes that depends
\* on the message and on the hash function.
Hash(alg, msg) ==
    [i \in 1..HashSize(alg) |-> (7 * SumBytes(msg) + 3 * Len(msg) + HashSize(alg) + i) % 256]

\* big.Int.FillBytes: x left-padded with zero bytes to width w.
FillBytes(x, w) == IF Len(x) >= w THEN x ELSE Zeros(w - Len(x)) \o x

\* coze.PadCon(r, s, size): a slice of size bytes holding r and s, each
\* left-padded to size/2; it panics when r or s does not fit.
PadCon(r, s, size) ==
    IF Len(r) > size \div 2 \/ Len(s) > size \div 2
    THEN [panic |-> TRUE, out |-> <<>>]
    ELSE [panic |-> FALSE, out |-> FillBytes(r, size \div 2) \o FillBytes(s, size \div 2)]

(***************************************************************************)
(* Key values.  The dynamic type of an interface value is the field type;  *)
(* every value has the same fields so that values of different types can   *)
(* be compared.                                                            *)
(***************************************************************************)
Val(t, c, x, y, d, b) ==
    [type |-> t, curve |-> c, X |-> x, Y |-> y, D |-> d, bytes |-> b]

\* A nil interface value.
NilVal == Val("nil", "none", <<>>, <<>>, <<>>, <<>>)

EcPublic(c, x, y) == Val("ecdsa.PublicKey", c, x, y, <<>>, <<>>)

EcPrivate(c, x, y, d) == Val("*ecdsa.PrivateKey", c, x, y, d, <<>>)

EdPublic(b) == Val("ed25519.PublicKey", "none", <<>>, <<>>, <<>>, b)

EdPrivate(b) == Val("ed25519.PrivateKey", "none", <<>>, <<>>, <<>>, b)

\* A coze.B64 byte string held in an interface.
B64Val(b) == Val("coze.B64", "none", <<>>, <<>>, <<>>, b)

\* A []coze.B64 held in an interface; bytes is the concatenation of its
\* elements.
B64SliceVal(b) == Val("[]coze.B64", "none", <<>>, <<>>, <<>>, b)

CryptoKey(alg, pub, priv) == [Alg |-> alg, Public |-> pub, Private |-> priv]

\* No key (a nil *CryptoKey).
NoKey == CryptoKey("none", NilVal, NilVal)

(***************************************************************************)
(* Stand-in for crypto/ecdsa.  The group of a curve is the integers modulo *)
(* a small prime (Order) with generator 1, and the point of scalar d is    *)
(* (d, d*d).  A group element v stands for a big.Int of the curve's size:  *)
(* of the full width of the field when v is odd, of one byte when v is     *)
(* even, so that numbers with and without leading zero bytes both occur.   *)
(***************************************************************************)
Order(c) == CASE c = "P-224" -> 5
              [] c = "P-256" -> 7
              [] c = "P-384" -> 11
              [] OTHER -> 13

\* The byte length of a field element or scalar of the curve.
FieldWidth(c) == CASE c = "P-224" -> 28
                   [] c = "P-256" -> 32
                   [] c = "P-384" -> 48
                   [] OTHER -> 66

\* The big.Int of group element v (0 <= v < Order(c)).
EcNum(c, v) == IF v = 0 THEN <<>>
               ELSE IF v % 2 = 1 THEN <<v>> \o Zeros(FieldWidth(c) - 1)
               ELSE <<v>>

\* x is the big.Int of a group element in 1..Order(c)-1.
InRange(c, x) == \E v \in 1..(Order(c) - 1) : x = EcNum(c, v)

\* The group element of a big.Int in range.
EcVal(c, x) == x[1]

PointX(c, d) == EcNum(c, d % Order(c))

PointY(c, d) == EcNum(c, (d * d) % Order(c))

\* ecdsa.GenerateKey with the random scalar d.
EcGenerateKey(c, d) == EcPrivate(c, PointX(c, d), PointY(c, d), EcNum(c, d))

\* The digest as a number modulo the order.
HashToInt(digest, n) == BigMod(Strip(digest), n)

\* ecdsa.Sign with nonce k: the pair (r, s), or an error for a private
\* scalar outside 1..n-1.
EcSign(priv, digest, k) ==
    LET c == priv.curve
        n == Order(c)
    IN  IF ~InRange(c, priv.D) THEN [err |-> TRUE, r |-> <<>>, s |-> <<>>]
        ELSE LET r == k % n
                 s == (Inv(k % n, n) * (HashToInt(digest, n) + r * EcVal(c, priv.D))) % n
             IN  [err |-> FALSE, r |-> EcNum(c, r), s |-> EcNum(c, s)]

\* The nonces ecdsa.Sign can end with: it draws again while r or s is zero.
EcNonceOK(priv, digest, k) ==
    /\ k % Order(priv.curve) # 0
    /\ InRange(priv.curve, priv.D) => EcSign(priv, digest, k).s # <<>>

\* ecdsa.Verify
EcVerify(pub, digest, r, s) ==
    LET c == pub.curve
        n == Order(c)
    IN  /\ InRange(c, r)
        /\ InRange(c, s)
        /\ InRange(c, pub.X)
        /\ pub.Y = PointY(c, EcVal(c, pub.X))
        /\ LET w == Inv(EcVal(c, s), n)
               u1 == (HashToInt(digest, n) * w) % n
               u2 == (EcVal(c, r) * w) % n
               p == (u1 + u2 * EcVal(c, pub.X)) % n
           IN  p # 0 /\ p = EcVal(c, r)

(***************************************************************************)
(* Stand-in for crypto/ed25519 (a Schnorr signature over the integers      *)
(* modulo EdOrder), with the length checks and panics of the library.      *)
(***************************************************************************)
EdOrder == 7

EdPublicKeySize == 32

EdPrivateKeySize == 64

EdSignatureSize == 64

\* A scalar or point as 32 little-endian bytes.
EdEnc(v) == <<v>> \o Zeros(31)

\* b is the encoding of a scalar below EdOrder.
EdCanonical(b) == Len(b) = 32 /\ b[1] < EdOrder /\ b = EdEnc(b[1])

\* The secret scalar of a seed.
EdScalar(seed) == (SumBytes(seed) % (EdOrder - 1)) + 1

\* ed25519.GenerateKey with the random seed: the private key is
\* seed || public key.
EdGenerateKey(seed) ==
    [pub |-> EdPublic(EdEnc(EdScalar(seed))),
     priv |-> EdPrivate(seed \o EdEnc(EdScalar(seed)))]

EdChallenge(R, A, msg) == (3 * SumBytes(R) + 5 * SumBytes(A) + SumBytes(msg) + 1) % EdOrder

\* ed25519.Sign; panics for a private key that is not 64 bytes long.
EdSign(priv, msg) ==
    IF Len(priv) # EdPrivateKeySize THEN [panic |-> TRUE, sig |-> <<>>]
    ELSE LET seed == Slice(priv, 0, 32)
             A == Slice(priv, 32, 64)
             r == (2 * SumBytes(seed) + SumBytes(msg) + 1) % EdOrder
             R == EdEnc(r)
             S == (r + EdChallenge(R, A, msg) * EdScalar(seed)) % EdOrder
         IN  [panic |-> FALSE, sig |-> R \o EdEnc(S)]

\* ed25519.Verify; panics for a public key that is not 32 bytes long.
EdVerify(pub, msg, sig) ==
    IF Len(pub) # EdPublicKeySize THEN [panic |-> TRUE, valid |-> FALSE]
    ELSE [panic |-> FALSE,
          valid |->
             /\ Len(sig) = EdSignatureSize
             /\ EdCanonical(pub)
             /\ EdCanonical(Slice(sig, 32, 64))
             /\ LET R == Slice(sig, 0, 32)
                    S == sig[33]
                    h == EdChallenge(R, pub, msg)
                IN  R = EdEnc((S + EdOrder * EdOrder - h * pub[1]) % EdOrder)]

(***************************************************************************)
(* Package cryptokey.                                                      *)
(***************************************************************************)
\* What Sign returns: the signature (<<>> is nil), the error, whether the
\* call panicked, and the steps it took, in order.
SignRet(sig, err, panicked, trace) ==
    [sig |-> sig, err |-> err, panicked |-> panicked, trace |-> trace]

\* What Verify returns: the result, whether the call panicked instead of
\* returning, and the steps it took.
VerifyRet(valid, panicked, trace) ==
    [valid |-> valid, panicked |-> panicked, trace |-> trace]

\* rand.Reader is taken to deliver: the error returns of GenerateKey and of
\* ecdsa.Sign for a failing random source are not taken.

\* NewCryptoKey with the public key of an ECDSA pair stored as a pointer.
NewCryptoKeyPointerPublic(alg, rnd) ==
    CASE alg \in EddsaAlgs ->
           LET kp == EdGenerateKey(Fill(rnd, 32))
           IN  [ck |-> CryptoKey(alg, kp.pub, kp.priv), err |-> "none"]
      [] alg \in EcdsaAlgs ->
           LET keyPair == EcGenerateKey(Curve(alg), rnd)
           IN  [ck |-> CryptoKey(alg,
                                 Val("*ecdsa.PublicKey", keyPair.curve, keyPair.X,
                                     keyPair.Y, <<>>, <<>>),
                                 keyPair),
                err |-> "none"]
      [] OTHER -> [ck |-> NoKey, err |-> "unknown alg"]

\* NewCryptoKey(alg) with the scalar or seed rnd read from rand.Reader.
NewCryptoKey(alg, rnd) ==
    CASE alg \in EddsaAlgs ->
           LET kp == EdGenerateKey(Fill(rnd, 32))
           IN  [ck |-> CryptoKey(alg, kp.pub, kp.priv), err |-> "none"]
      [] alg \in EcdsaAlgs ->
           LET keyPair == EcGenerateKey(Curve(alg), rnd)
           IN  [ck |-> CryptoKey(alg,
                                 EcPublic(keyPair.curve, keyPair.X, keyPair.Y),
                                 keyPair),
                err |-> "none"]
      [] OTHER -> [ck |-> NoKey, err |-> "unknown alg"]

\* The length check with <= in place of !=.
DigestLengthAtMost(c, digest) == Len(digest) <= HashSize(c.Alg)

\* The first check of Sign: len(digest) is c.Alg.Hash().Size().
DigestLengthOK(c, digest) == Len(digest) = HashSize(c.Alg)

\* The ECDSA branch with r.Bytes() || s.Bytes() in place of the padded form.
SignEcdsaUnpadded(c, digest, k) ==
    IF c.Private.type # "*ecdsa.PrivateKey"
    THEN SignRet(<<>>, "not a valid ECDSA private key", FALSE, <<"length", "private">>)
    ELSE LET rs == EcSign(c.Private, digest, k)
         IN  IF rs.err
             THEN SignRet(<<>>, "ecdsa.Sign", FALSE, <<"length", "private", "ecdsa.Sign">>)
             ELSE SignRet(rs.r \o rs.s, "none", FALSE,
                          <<"length", "private", "ecdsa.Sign", "PadCon">>)

\* The ECDSA branch of Sign, with the nonce k that ecdsa.Sign reads from
\* rand.Reader.
SignEcdsa(c, digest, k) ==
    IF c.Private.type # "*ecdsa.PrivateKey"
    THEN SignRet(<<>>, "not a valid ECDSA private key", FALSE, <<"length", "private">>)
    ELSE LET rs == EcSign(c.Private, digest, k)
         IN  IF rs.err
             THEN SignRet(<<>>, "ecdsa.Sign", FALSE, <<"length", "private", "ecdsa.Sign">>)
             ELSE LET p == PadCon(rs.r, rs.s, SigSize(c.Alg))
                  IN  SignRet(p.out, "none", p.panic,
                              <<"length", "private", "ecdsa.Sign", "PadCon">>)

\* The EdDSA branch with an unchecked conversion of the private value.
SignEddsaUnchecked(c, digest) ==
    LET r == EdSign(c.Private.bytes, digest)
    IN  SignRet(r.sig, "none", r.panic, <<"length", "private", "ed25519.Sign">>)

\* The EdDSA branch of Sign.
SignEddsa(c, digest) ==
    IF c.Private.type # "ed25519.PrivateKey"
    THEN SignRet(<<>>, "not a valid EdDSA private key", FALSE, <<"length", "private">>)
    ELSE LET r == EdSign(c.Private.bytes, digest)
         IN  SignRet(r.sig, "none", r.panic, <<"length", "private", "ed25519.Sign">>)

\* c.Sign(digest)
Sign(c, digest, k) ==
    IF ~DigestLengthOK(c, digest)
    THEN SignRet(<<>>, "digest length", FALSE, <<"length">>)
    ELSE CASE c.Alg \in EcdsaAlgs -> SignEcdsa(c, digest, k)
           [] c.Alg \in EddsaAlgs -> SignEddsa(c, digest)
           [] OTHER -> SignRet(<<>>, "unknown alg", FALSE, <<"length">>)

\* The first check of Verify without the test of the signature.
EmptyDigestOnly(digest, sig) == Len(digest) = 0

\* The first check of Verify: an empty signature or an empty digest.
EmptyInput(digest, sig) == Len(sig) = 0 \/ Len(digest) = 0

\* The ECDSA branch of Verify.  sig[:size] and sig[size:] panic when size
\* exceeds len(sig): sig[:size] needs size <= cap(sig), sig[size:] needs
\* size <= len(sig), and cap(sig) >= len(sig).  The slices are taken before
\* the public value is looked at.
VerifyEcdsa(c, digest, sig) ==
    LET size == SigSize(c.Alg) \div 2
    IN  IF size > Len(sig)
        THEN VerifyRet(FALSE, TRUE, <<"empty", "slice">>)
        ELSE LET r == SetBytes(Slice(sig, 0, size))
                 s == SetBytes(Slice(sig, size, Len(sig)))
             IN  IF c.Public.type # "ecdsa.PublicKey"
                 THEN VerifyRet(FALSE, FALSE, <<"empty", "slice", "public">>)
                 ELSE VerifyRet(EcVerify(c.Public, digest, r, s), FALSE,
                                <<"empty", "slice", "public", "ecdsa.Verify">>)

\* The EdDSA branch of Verify.
VerifyEddsa(c, digest, sig) ==
    IF c.Public.type # "ed25519.PublicKey"
    THEN VerifyRet(FALSE, FALSE, <<"empty", "public">>)
    ELSE LET r == EdVerify(c.Public.bytes, digest, sig)
         IN  VerifyRet(r.valid, r.panic, <<"empty", "public", "ed25519.Verify">>)

\* c.Verify(digest, sig)
Verify(c, digest, sig) ==
    IF EmptyInput(digest, sig)
    THEN VerifyRet(FALSE, FALSE, <<"empty">>)
    ELSE CASE c.Alg \in EcdsaAlgs -> VerifyEcdsa(c, digest, sig)
           [] c.Alg \in EddsaAlgs -> VerifyEddsa(c, digest, sig)
           [] OTHER -> VerifyRet(FALSE, FALSE, <<"empty">>)

\* c.SignMsg(msg)
SignMsg(c, msg, k) == Sign(c, Hash(c.Alg, msg), k)

\* VerifyMsg hashing with SHA-256 whatever the key's algorithm.
VerifyMsgSha256(c, msg, sig) == Verify(c, Hash("ES256", msg), sig)

\* c.VerifyMsg(msg, sig)
VerifyMsg(c, msg, sig) == Verify(c, Hash(c.Alg, msg), sig)

\* A coze.CozeKey, as far as the package reads it.
CozeKey(alg, x, d) == [Alg |-> alg, X |-> x, D |-> d]

NoCozeKey == CozeKey("none", <<>>, <<>>)

\* What ToCryptoKey returns: the key (NoKey is nil), the error, and whether
\* the call panicked instead of returning.
ConvRet(k, err, panicked) == [key |-> k, err |-> err, panicked |-> panicked]

\* edDSACozeKeyToCryptoKey: Public holds ck.X as a coze.B64; Private holds a
\* []coze.B64 of 64 empty elements followed by ck.D and ck.X.
edDSACozeKeyToCryptoKey(ck) ==
    ConvRet(CryptoKey(ck.Alg, B64Val(ck.X), B64SliceVal(ck.D \o ck.X)), "none", FALSE)

\* ecDSACozeKeyToCryptoKey splitting X at XSize in place of XSize / 2.
ecDSACozeKeyToCryptoKeyFullSize(ck) ==
    LET half == XSize(ck.Alg)
    IN  IF half > Len(ck.X) THEN ConvRet(NoKey, "none", TRUE)
        ELSE LET x == SetBytes(Slice(ck.X, 0, half))
                 y == SetBytes(Slice(ck.X, half, Len(ck.X)))
                 ec == EcPublic(Curve(ck.Alg), x, y)
             IN  IF Len(ck.D) = 0
                 THEN ConvRet(CryptoKey(ck.Alg, ec, NilVal), "none", FALSE)
                 ELSE ConvRet(CryptoKey(ck.Alg, ec,
                                        EcPrivate(ec.curve, ec.X, ec.Y, SetBytes(ck.D))),
                              "none", FALSE)

\* ecDSACozeKeyToCryptoKey: ck.X[:half] and ck.X[half:] panic when half
\* exceeds len(ck.X).
ecDSACozeKeyToCryptoKey(ck) ==
    LET half == XSize(ck.Alg) \div 2
    IN  IF half > Len(ck.X) THEN ConvRet(NoKey, "none", TRUE)
        ELSE LET x == SetBytes(Slice(ck.X, 0, half))
                 y == SetBytes(Slice(ck.X, half, Len(ck.X)))
                 ec == EcPublic(Curve(ck.Alg), x, y)
             IN  IF Len(ck.D) = 0
                 THEN ConvRet(CryptoKey(ck.Alg, ec, NilVal), "none", FALSE)
                 ELSE ConvRet(CryptoKey(ck.Alg, ec,
                                        EcPrivate(ec.curve, ec.X, ec.Y, SetBytes(ck.D))),
                              "none", FALSE)

\* ToCryptoKey(cozekey)
ToCryptoKey(ck) ==
    IF Len(ck.X) = 0 THEN ConvRet(NoKey, "invalid CozeKey", FALSE)
    ELSE CASE Genus(ck.Alg) = "Ecdsa" -> ecDSACozeKeyToCryptoKey(ck)
           [] Genus(ck.Alg) = "Eddsa" -> edDSACozeKeyToCryptoKey(ck)
           [] OTHER -> ConvRet(NoKey, "unsupported alg", FALSE)

(***************************************************************************)
(* The callers of the package: what they pass in, and the state they keep. *)
(*   key      the CryptoKey in use (NoKey: none)                           *)
(*   origin   how key was made: "new", "literal", "converted", "none"      *)
(*   cozekey  the CozeKey to convert (NoCozeKey: none)                     *)
(*   orig     the generated key cozekey was written from (NoKey: none)     *)
(*   signed   the last signature a Sign or SignMsg of a generated key      *)
(*            returned, with its key, digest and message                   *)
(*   out      the last call and what it returned                           *)
(***************************************************************************)
Out(op, digest, msg, sigIn, sig, err, valid, panicked, trace) ==
    [op |-> op, digest |-> digest, msg |-> msg, sigIn |-> sigIn, sig |-> sig,
     err |-> err, valid |-> valid, panicked |-> panicked, trace |-> trace]

NoOut == Out("none", <<>>, <<>>, <<>>, <<>>, "none", FALSE, FALSE, <<>>)

Signed(ok, k, digest, msg, viaMsg, sig) ==
    [ok |-> ok, key |-> k, digest |-> digest, msg |-> msg, viaMsg |-> viaMsg, sig |-> sig]

NoSigned == Signed(FALSE, NoKey, <<>>, <<>>, FALSE, <<>>)

MsgBytes == {1, 2}

Msgs == {Fill(b, n) : b \in MsgBytes, n \in 0..MaxMsgLen}

\* The digests handed to Sign: of the right length, empty, too short and
\* too long.
SignDigests(alg) ==
    {Fill(b, HashSize(alg)) : b \in 1..2}
      \cup {<<>>, Fill(1, 20), Fill(1, HashSize(alg) + 1)}

\* sig with a zero byte put in after its first n bytes.
InsertZero(sig, n) == Slice(sig, 0, n) \o <<0>> \o Slice(sig, n, Len(sig))

\* sig without the byte after its first n bytes.
DropByte(sig, n) == Slice(sig, 0, n) \o Slice(sig, n + 1, Len(sig))

\* The signatures handed to Verify: the one signed (if any), that one made
\* a byte longer or shorter, and byte strings of several lengths.
VerifySigs(alg) ==
    {<<>>, Fill(1, 1), Fill(1, 64), Fill(1, SigSize(alg)), Fill(1, SigSize(alg) + 1)}
      \cup (IF signed.ok
            THEN {signed.sig,
                  InsertZero(signed.sig, Len(signed.sig) \div 2),
                  DropByte(signed.sig, Len(signed.sig) \div 2)}
            ELSE {})

\* The signatures handed to VerifyMsg.
VerifyMsgSigs ==
    {<<>>, Fill(1, 1)} \cup (IF signed.ok THEN {signed.sig} ELSE {})

VerifyDigests(alg) ==
    {<<>>, Fill(1, HashSize(alg)), Fill(1, 20)}
      \cup (IF signed.ok THEN {signed.digest} ELSE {})

\* The values callers put in the Public and Private fields of a CryptoKey
\* they build themselves.
LiteralPublics ==
    {NilVal,
     EcPublic("P-256", PointX("P-256", 2), PointY("P-256", 2)),
     EcPublic("P-521", PointX("P-521", 2), PointY("P-521", 2)),
     EdPublic(EdEnc(3)),
     EdPublic(Fill(1, 31)),
     B64Val(EdEnc(3))}

LiteralPrivates ==
    {NilVal,
     EcGenerateKey("P-256", 2),
     EcGenerateKey("P-521", 1),
     EdGenerateKey(Fill(1, 32)).priv}

\* The CozeKeys callers build themselves: X empty, one byte, half of the
\* algorithm's size, the full size, and a byte more.
LiteralX(alg) ==
    {<<>>, Fill(1, 1), Fill(1, XSize(alg) \div 2), Fill(1, XSize(alg)),
     Fill(1, XSize(alg) + 1), EdEnc(3)}

LiteralD == {<<>>, Fill(1, 32)}

Init ==
    /\ key = NoKey
    /\ origin = "none"
    /\ cozekey = NoCozeKey
    /\ orig = NoKey
    /\ signed = NoSigned
    /\ out = NoOut

\* A caller that holds a key, has read the result of its last call, and
\* has not yet written the key as a CozeKey.
Ready == key # NoKey /\ out = NoOut /\ (origin = "new" => cozekey = NoCozeKey)

\* A caller that holds nothing yet.
Fresh == key = NoKey /\ cozekey = NoCozeKey /\ out = NoOut

\* A caller generates a key.
Generate(alg, rnd) ==
    LET r == NewCryptoKey(alg, rnd)
    IN  /\ Fresh
        /\ key' = r.ck
        /\ origin' = IF r.err = "none" THEN "new" ELSE "none"
        /\ cozekey' = NoCozeKey
        /\ orig' = NoKey
        /\ signed' = NoSigned
        /\ out' = Out("NewCryptoKey", <<>>, <<>>, <<>>, <<>>, r.err, FALSE, FALSE, <<>>)

\* A caller builds a CryptoKey from its exported fields.
Literal(alg, pub, priv) ==
    /\ Fresh
    /\ key' = CryptoKey(alg, pub, priv)
    /\ origin' = "literal"
    /\ cozekey' = NoCozeKey
    /\ orig' = NoKey
    /\ signed' = NoSigned
    /\ out' = NoOut

DoSign(digest, k) ==
    /\ Ready
    /\ (key.Alg \in EcdsaAlgs /\ key.Private.type = "*ecdsa.PrivateKey")
          => EcNonceOK(key.Private, digest, k)
    /\ LET r == Sign(key, digest, k)
       IN  /\ out' = Out("Sign", digest, <<>>, <<>>, r.sig, r.err, FALSE, r.panicked, r.trace)
           /\ signed' = IF origin = "new" /\ r.err = "none" /\ ~r.panicked
                        THEN Signed(TRUE, key, digest, <<>>, FALSE, r.sig)
                        ELSE signed
    /\ UNCHANGED <<key, origin, cozekey, orig>>

DoSignMsg(msg, k) ==
    /\ Ready
    /\ (key.Alg \in EcdsaAlgs /\ key.Private.type = "*ecdsa.PrivateKey")
          => EcNonceOK(key.Private, Hash(key.Alg, msg), k)
    /\ LET r == SignMsg(key, msg, k)
       IN  /\ out' = Out("SignMsg", <<>>, msg, <<>>, r.sig, r.err, FALSE, r.panicked, r.trace)
           /\ signed' = IF origin = "new" /\ r.err = "none" /\ ~r.panicked
                        THEN Signed(TRUE, key, Hash(key.Alg, msg), msg, TRUE, r.sig)
                        ELSE signed
    /\ UNCHANGED <<key, origin, cozekey, orig>>

DoVerify(digest, sig) ==
    /\ Ready
    /\ LET r == Verify(key, digest, sig)
       IN  out' = Out("Verify", digest, <<>>, sig, <<>>, "none", r.valid, r.panicked, r.trace)
    /\ UNCHANGED <<key, origin, cozekey, orig, signed>>

DoVerifyMsg(msg, sig) ==
    /\ Ready
    /\ LET r == VerifyMsg(key, msg, sig)
       IN  out' = Out("VerifyMsg", <<>>, msg, sig, <<>>, "none", r.valid, r.panicked, r.trace)
    /\ UNCHANGED <<key, origin, cozekey, orig, signed>>

\* The CozeKey of a generated key: for ECDSA X is x || y and D the scalar,
\* each number left-padded to half of XSize; for EdDSA X is the public key
\* and D the seed.  D is left out of a public CozeKey.
ExportCozeKey(k, withD) ==
    IF k.Alg \in EcdsaAlgs
    THEN LET w == XSize(k.Alg) \div 2
         IN  CozeKey(k.Alg,
                     FillBytes(k.Public.X, w) \o FillBytes(k.Public.Y, w),
                     IF withD THEN FillBytes(k.Private.D, w) ELSE <<>>)
    ELSE CozeKey(k.Alg, k.Public.bytes,
                 IF withD THEN Slice(k.Private.bytes, 0, 32) ELSE <<>>)

\* A caller writes the generated key in use as a CozeKey.
Export(withD) ==
    /\ Ready
    /\ origin = "new"
    /\ cozekey' = ExportCozeKey(key, withD)
    /\ orig' = key
    /\ out' = NoOut
    /\ UNCHANGED <<key, origin, signed>>

\* A caller builds a CozeKey of its own.
MakeCozeKey(alg, x, d) ==
    /\ Fresh
    /\ cozekey' = CozeKey(alg, x, d)
    /\ key' = NoKey
    /\ origin' = "none"
    /\ orig' = NoKey
    /\ signed' = NoSigned
    /\ out' = NoOut

\* A caller converts the CozeKey and uses the key it gets.
Convert ==
    /\ cozekey # NoCozeKey
    /\ origin \in {"none", "new"}
    /\ out = NoOut
    /\ LET r == ToCryptoKey(cozekey)
       IN  /\ key' = r.key
           /\ origin' = IF r.key = NoKey THEN "none" ELSE "converted"
           /\ out' = Out("ToCryptoKey", <<>>, <<>>, <<>>, <<>>, r.err, FALSE, r.panicked, <<>>)
    /\ UNCHANGED <<cozekey, orig, signed>>

\* The caller has read the result of its last call.
Return ==
    /\ out # NoOut
    /\ out' = NoOut
    /\ UNCHANGED <<key, origin, cozekey, orig, signed>>

Next ==
    \/ \E alg \in Algs \ EddsaAlgs, d \in 1..MaxScalar :
          /\ d < Order(Curve(alg))
          /\ Generate(alg, d)
    \/ \E alg \in EddsaAlgs, b \in 1..NumSeeds : Generate(alg, b)
    \/ \E alg \in Algs, pub \in LiteralPublics, priv \in LiteralPrivates :
          Literal(alg, pub, priv)
    \/ \E digest \in SignDigests(key.Alg), k \in 1..MaxNonce : DoSign(digest, k)
    \/ \E msg \in Msgs, k \in 1..MaxNonce : DoSignMsg(msg, k)
    \/ \E digest \in VerifyDigests(key.Alg), sig \in VerifySigs(key.Alg) :
          DoVerify(digest, sig)
    \/ \E msg \in Msgs, sig \in VerifyMsgSigs : DoVerifyMsg(msg, sig)
    \/ \E withD \in BOOLEAN : Export(withD)
    \/ \E alg \in Algs : \E x \in LiteralX(alg), d \in LiteralD : MakeCozeKey(alg, x, d)
    \/ Convert
    \/ Return

Spec == Init /\ [][Next]_vars

(***************************************************************************)
(* Properties.                                                            *)
(***************************************************************************)
\* The call in out was made on a generated key, with the digest and the
\* signature of the last successful Sign or SignMsg of that key.
VerifiesSigned ==
    /\ origin = "new"
    /\ signed.ok
    /\ signed.key = key
    /\ out.sigIn = signed.sig

\* C1: on a key generated by NewCryptoKey for a supported algorithm, Sign
\* of a digest of the algorithm's hash size succeeds, and Verify of that
\* digest and the signature Sign returned is true.
C1_SignVerifyRoundTrip ==
    /\ (/\ out.op = "Sign"
        /\ origin = "new"
        /\ key.Alg \in SupportedAlgs
        /\ Len(out.digest) = HashSize(key.Alg))
          => (out.err = "none" /\ ~out.panicked /\ Len(out.sig) > 0)
    /\ (out.op = "Verify" /\ VerifiesSigned /\ out.digest = signed.digest)
          => (out.valid /\ ~out.panicked)

C1_Witness ==
    /\ out.op = "Verify"
    /\ VerifiesSigned
    /\ ~signed.viaMsg
    /\ out.digest = signed.digest
    /\ key.Alg = "ES512"
    /\ out.valid

\* C2: on a generated key, SignMsg(msg) is Sign of the digest of msg under
\* the hash of the key's algorithm and succeeds; with the signature it
\* returned, VerifyMsg(msg, sig) and Verify(Hash(msg), sig) give the same
\* result, and that result is true.
C2_MsgIsDigestOfMsg ==
    /\ (out.op = "SignMsg" /\ origin = "new")
          => /\ out.err = "none"
             /\ \E k \in 1..MaxNonce :
                   LET r == Sign(key, Hash(key.Alg, out.msg), k)
                   IN  r.err = out.err /\ r.sig = out.sig
    /\ (out.op = "VerifyMsg" /\ VerifiesSigned /\ signed.viaMsg /\ out.msg = signed.msg)
          => /\ out.valid
             /\ ~out.panicked
             /\ Verify(key, Hash(key.Alg, out.msg), out.sigIn).valid = out.valid

C2_Witness ==
    /\ out.op = "VerifyMsg"
    /\ VerifiesSigned
    /\ signed.viaMsg
    /\ out.msg = signed.msg
    /\ Len(out.msg) > 0
    /\ key.Alg = "Ed25519"
    /\ out.valid

\* C3: Verify with an empty digest or an empty signature returns false and
\* does not panic, for every key.
C3_EmptyInputIsFalse ==
    (out.op = "Verify" /\ (Len(out.digest) = 0 \/ Len(out.sigIn) = 0))
        => (~out.valid /\ ~out.panicked)

C3_Witness ==
    /\ out.op = "Verify"
    /\ Len(out.sigIn) = 0
    /\ Len(out.digest) > 0
    /\ origin = "literal"
    /\ key.Alg = "ES256"
    /\ key.Public.type = "ecdsa.PublicKey"
    /\ ~out.valid
    /\ ~out.panicked

\* The public value of k has the shape its algorithm needs.
PublicShapeOK(k) ==
    \/ k.Alg \in EcdsaAlgs /\ k.Public.type = "ecdsa.PublicKey"
    \/ /\ k.Alg \in EddsaAlgs
       /\ k.Public.type = "ed25519.PublicKey"
       /\ Len(k.Public.bytes) = EdPublicKeySize

\* C4: Verify with a non-empty digest and a non-empty signature of any
\* length does not panic, and returns false when the public value is
\* missing or of the wrong shape, when the algorithm is not recognized, or
\* when the signature does not have the algorithm's signature size.
C4_VerifyNeverRaises ==
    (out.op = "Verify" /\ Len(out.digest) > 0 /\ Len(out.sigIn) > 0)
        => /\ ~out.panicked
           /\ (\/ ~PublicShapeOK(key)
               \/ key.Alg \notin SupportedAlgs
               \/ Len(out.sigIn) # SigSize(key.Alg)) => ~out.valid

\* C5: a signature that Sign returns without error for an ECDSA algorithm
\* is SigSize bytes long: r and s of ecdsa.Sign, each left-padded with zero
\* bytes to SigSize / 2, one after the other.
C5_EcdsaSignatureIsFixedWidth ==
    (out.op = "Sign" /\ key.Alg \in EcdsaAlgs /\ out.err = "none" /\ ~out.panicked)
        => LET half == SigSize(key.Alg) \div 2
           IN  /\ Len(out.sig) = SigSize(key.Alg)
               /\ \E k \in 1..MaxNonce :
                     LET rs == EcSign(key.Private, out.digest, k)
                     IN  /\ Len(rs.r) <= half
                         /\ Len(rs.s) <= half
                         /\ out.sig = Zeros(half - Len(rs.r)) \o rs.r
                                        \o Zeros(half - Len(rs.s)) \o rs.s

C5_Witness ==
    /\ out.op = "Sign"
    /\ key.Alg = "ES512"
    /\ out.err = "none"
    /\ ~out.panicked
    /\ Len(out.sig) = 132
    /\ out.sig[1] = 0
    /\ out.sig[67] # 0

\* C6: Sign of a digest whose length is not the hash size of the key's
\* (supported) algorithm returns the length error and no signature, does
\* not panic, and takes no step after the length check: it does not look
\* at the private value and calls no signing primitive.
C6_DigestLengthChecked ==
    (out.op = "Sign" /\ key.Alg \in SupportedAlgs /\ Len(out.digest) # HashSize(key.Alg))
        => /\ out.err = "digest length"
           /\ out.sig = <<>>
           /\ ~out.panicked
           /\ out.trace = <<"length">>

C6_Witness ==
    /\ out.op = "Sign"
    /\ key.Alg = "ES256"
    /\ key.Private.type = "*ecdsa.PrivateKey"
    /\ Len(out.digest) = 20
    /\ out.err = "digest length"

\* The private value of k is missing or has the shape of the other family.
PrivateMissingOrOtherFamily(k) ==
    \/ k.Alg \in SupportedAlgs /\ k.Private.type = "nil"
    \/ k.Alg \in EddsaAlgs /\ k.Private.type = "*ecdsa.PrivateKey"
    \/ k.Alg \in EcdsaAlgs /\ k.Private.type = "ed25519.PrivateKey"

\* C7: Sign of a digest of the right length on a key whose private value is
\* missing or of the other family's shape returns the 'not a valid private
\* key' error and no signature, and does not panic.
C7_WrongPrivateIsError ==
    (/\ out.op = "Sign"
     /\ Len(out.digest) = HashSize(key.Alg)
     /\ PrivateMissingOrOtherFamily(key))
        => /\ out.err \in {"not a valid ECDSA private key", "not a valid EdDSA private key"}
           /\ out.sig = <<>>
           /\ ~out.panicked

C7_Witness ==
    /\ out.op = "Sign"
    /\ key.Alg = "Ed25519"
    /\ key.Private.type = "*ecdsa.PrivateKey"
    /\ Len(out.digest) = 64
    /\ out.err = "not a valid EdDSA private key"

\* key was converted from the CozeKey written from the generated key orig.
ConvertedFromGenerated(algs) ==
    /\ origin = "converted"
    /\ orig # NoKey
    /\ orig.Alg \in algs

\* C8: the key converted from the CozeKey of a generated EdDSA key (X the
\* public key, D the seed when present) verifies what the generated key
\* signed; with D it signs, and the generated key verifies its signatures;
\* without D it has no private value.
C8_EddsaConversion ==
    ConvertedFromGenerated(EddsaAlgs)
        => /\ (cozekey.D = <<>>) => (key.Private = NilVal)
           /\ (/\ out.op = "Verify"
               /\ signed.ok
               /\ out.digest = signed.digest
               /\ out.sigIn = signed.sig) => out.valid
           /\ (/\ out.op = "Sign"
               /\ cozekey.D # <<>>
               /\ Len(out.digest) = HashSize(key.Alg))
                 => (out.err = "none" /\ Verify(orig, out.digest, out.sig).valid)

\* C9: the key converted from the CozeKey of a generated ECDSA key (X the
\* point x || y, each coordinate padded to the field width) has the same
\* algorithm and the same public point on the algorithm's curve; with D its
\* private key pairs the scalar with that point, without D it has none.
C9_EcdsaConversionRoundTrip ==
    /\ (out.op = "ToCryptoKey" /\ orig # NoKey /\ orig.Alg \in EcdsaAlgs)
          => (out.err = "none" /\ ~out.panicked /\ origin = "converted")
    /\ ConvertedFromGenerated(EcdsaAlgs)
          => /\ key.Alg = orig.Alg
             /\ key.Public = orig.Public
             /\ key.Public.curve = Curve(orig.Alg)
             /\ (cozekey.D # <<>>)
                   => key.Private = EcPrivate(key.Public.curve, key.Public.X,
                                              key.Public.Y, orig.Private.D)
             /\ (cozekey.D = <<>>) => key.Private = NilVal

C9_Witness ==
    /\ out.op = "ToCryptoKey"
    /\ ConvertedFromGenerated({"ES512"})
    /\ Len(cozekey.X) = 132
    /\ cozekey.D = <<>>
    /\ key.Public = orig.Public
    /\ key.Private = NilVal

\* C10: ToCryptoKey does not panic and returns either a key and no error or
\* an error and no key; an empty X gives the invalid-CozeKey error whatever
\* the algorithm, an X that is not empty and not of the algorithm's size
\* gives it too, and an algorithm of neither genus gives the
\* unsupported-algorithm error.
C10_ConversionAllOrNothing ==
    out.op = "ToCryptoKey"
        => /\ ~out.panicked
           /\ (out.err = "none") <=> (key # NoKey)
           /\ (Len(cozekey.X) = 0) => out.err = "invalid CozeKey"
           /\ (Len(cozekey.X) > 0 /\ Genus(cozekey.Alg) = "Unknown")
                 => out.err = "unsupported alg"
           /\ (/\ Len(cozekey.X) > 0
               /\ Genus(cozekey.Alg) # "Unknown"
               /\ Len(cozekey.X) # XSize(cozekey.Alg)) => out.err = "invalid CozeKey"

====
